---- MODULE Spec2Model ----
(***************************************************************************)
(* NetFUSES: fusing graphs over a shared vertex universe (fuse) and        *)
(* contracting the components of the fused graph (collapse).               *)
(*                                                                         *)
(*   src/netfuses.py            fuse, collapse_fused_graph                 *)
(*   src/netfuses/netfuses.py   NetworkFuser.fuse, NetworkFuser.collapse   *)
(*                                                                         *)
(* A node is an opaque identifier.  An nx.Graph is a record                *)
(* [kind, nodes, edges], an edge being the set of its endpoints (one       *)
(* element for a self-loop).  An nx.MultiGraph is a record                 *)
(* [nodes, edges, fused_set]: edges maps each endpoint set to its number   *)
(* of parallel edges, fused_set maps a node to its 'fused_set' attribute.  *)
(***************************************************************************)
EXTENDS Integers, Sequences, FiniteSets, TLC

VARIABLES
    graphs,        \* *graphs of the call in progress: a sequence of arguments
    simfn,         \* the oracle: simfn[u] is its answer for source u at this call's t
    t,             \* threshold handed to fuse / NetworkFuser.__init__
    verbose,       \* <<>> for None, <<k>> for the integer k
    strNodes,      \* the nodes whose Python identifier is a str
    entry,         \* "function": collapse_fused_graph, "method": NetworkFuser.collapse
    fuser,         \* the graph returned by fuse (the fuser argument of collapse)
    fuseOut,       \* how the last fuse call ended
    printed,       \* number of lines the last fuse call printed
    collapsed,     \* the output MultiGraph: the default argument of the collapse
                   \* entry point, or the graph the caller passed
    atEntry,       \* value of that MultiGraph when the call in progress began
    earlier,       \* TRUE once a collapse call has returned the graph collapsed is
    pc,            \* position of the call in progress
    conn_comps,    \* collapse: components sorted by size
    i,             \* collapse: index of the next component
    id2fused_set,  \* collapse: component id -> members
    node2fuse_id,  \* collapse: member -> component id
    calls          \* number of pipeline calls started

vars == <<graphs, simfn, t, verbose, strNodes, entry, fuser, fuseOut, printed,
          collapsed, atEntry, earlier, pc, conn_comps, i, id2fused_set,
          node2fuse_id, calls>>

---------------------------------------------------------------------------
(* Bounds of the model *)

\* the node identifiers the caller draws from
Node == {"a", "b", "c"}

\* at most this many source graphs per call
GraphCounts == {0, 1, 2}

\* verbose ranges over None and 0..MaxVerbose
MaxVerbose == 2

\* pipeline calls per session
MaxCalls == 2

Thresholds == {0, 1}

---------------------------------------------------------------------------
(* Data *)

None == <<>>

VerboseValues == {None} \cup {<<k>> : k \in 0..MaxVerbose}

EmptyGraph == [kind |-> "graph", nodes |-> {}, edges |-> {}]

EmptyMultiGraph == [nodes |-> {}, edges |-> <<>>, fused_set |-> <<>>]

EmptyMap == <<>>

\* the edges a graph on node set S can have
EdgesOver(S) == {{u, v} : u \in S, v \in S}

\* nx.Graph values the caller passes: built from one add_node or from one
\* add_edge
SourceGraphs ==
    {[kind |-> "graph", nodes |-> {u}, edges |-> {}] : u \in Node}
    \cup {[kind |-> "graph", nodes |-> e, edges |-> {e}] : e \in EdgesOver(Node)}

\* arguments that are not graphs: a container of nodes, or a scalar
NonGraphs ==
    {[kind |-> "container", nodes |-> {}, edges |-> {}],
     [kind |-> "container", nodes |-> {"a"}, edges |-> {}],
     [kind |-> "scalar", nodes |-> {}, edges |-> {}]}

GraphTuples == UNION {[1..n -> SourceGraphs] : n \in GraphCounts}

\* every way of listing the set S
Perms(S) ==
    {f \in [1..Cardinality(S) -> S] : \A x \in S : \E k \in DOMAIN f : f[k] = x}

\* the elements of S in the order ord lists them
InOrder(S, ord) == SelectSeq(ord, LAMBDA x : x \in S)

\* set().union(*map(set, graphs))
UnionOf(gs) == UNION {gs[k].nodes : k \in DOMAIN gs}

\* oracles that honour their contract on the universe V: answers are candidates
ContractOracles(V) ==
    {f \in [Node -> SUBSET Node] :
        \A u \in Node : IF u \in V THEN f[u] \subseteq V \ {u} ELSE f[u] = {}}

\* oracles that return any set of nodes, candidates or not, when asked about
\* a node of V (fuse asks about no other node)
AnyOracles(V) ==
    {f \in [Node -> SUBSET Node] : \A u \in Node \ V : f[u] = {}}

---------------------------------------------------------------------------
(* nx.Graph operations used by fuse *)

\* G.add_nodes_from(S)
AddNodesFrom(G, S) == [G EXCEPT !.nodes = @ \cup S]

\* the pairs of G.add_edges_from((u,u) for u in union)
SelfLoopDropped(union) == {}

SelfLoopPairs(union) == {<<u, u>> : u \in union}

\* G.add_edges_from(pairs): an edge brings its endpoints into the graph
AddEdgesFrom(G, pairs) ==
    [G EXCEPT !.nodes = @ \cup UNION {{p[1], p[2]} : p \in pairs},
              !.edges = @ \cup {{p[1], p[2]} : p \in pairs}]

\* the pairs of G.add_edges_from((u,a) for a in analogs)
AnalogPairsSwallowed(u, analogs) == {}

AnalogPairs(u, analogs) == {<<u, a>> : a \in analogs}

---------------------------------------------------------------------------
(* fuse(t, simfn, *graphs, verbose) of src/netfuses.py *)

Raised(exc, out) == [outcome |-> exc, G |-> EmptyGraph, printed |-> out]

\* the loop over enumerate(list(union), 1), from position idx on
RECURSIVE FuseLoop(_, _, _, _, _, _, _)
FuseLoop(G, order, idx, union, sf, vb, out) ==
    IF idx > Len(order)
    THEN [outcome |-> "returned", G |-> G,
          printed |-> out + (IF vb # None THEN 1 ELSE 0)]
    ELSE IF vb # None /\ vb[1] = 0
    THEN Raised("ZeroDivisionError", out)
    ELSE LET u == order[idx]
             line == IF vb # None /\ idx % vb[1] = 0 THEN 1 ELSE 0
             valid_nodes == union \ {u}
             analogs == sf[u]      \* simfn(u, valid_nodes, t, **kwargs)
         IN  FuseLoop(AddEdgesFrom(G, AnalogPairs(u, analogs)),
                      order, idx + 1, union, sf, vb, out + line)

\* fuse from G = nx.Graph() on
FuseOn(union, sf, vb, order) ==
    LET G0 == AddEdgesFrom(AddNodesFrom(EmptyGraph, union), SelfLoopPairs(union))
    IN  FuseLoop(G0, order, 1, union, sf, vb, 0)

Fuse(gs, sf, vb, order) == FuseOn(UnionOf(gs), sf, vb, order)

---------------------------------------------------------------------------
(* NetworkFuser.fuse of src/netfuses/netfuses.py *)

\* self._above_threshold(u, v) reads self.similarit_func, an attribute
\* __init__ never sets (it sets similarity_func)
AboveThreshold(u, v) == [raised |-> "AttributeError"]

RECURSIVE FuserLoop(_, _, _, _, _)
FuserLoop(G, order, idx, union, vb) ==
    IF idx > Len(order)
    THEN [outcome |-> "returned", G |-> G, printed |-> 0]
    ELSE IF vb # None /\ vb[1] = 0
    THEN Raised("ZeroDivisionError", 0)
    ELSE IF vb # None /\ idx % vb[1] = 0
    THEN Raised("ValueError", 0)     \* the format string does not parse
    ELSE LET u == order[idx]
             valid_nodes == union \ {u}
         IN  IF valid_nodes # {}
             THEN Raised((AboveThreshold(u, CHOOSE v \in valid_nodes : TRUE)).raised, 0)
             ELSE FuserLoop(G, order, idx + 1, union, vb)

FuserFuse(gs, vb, order) ==
    LET union == UnionOf(gs)
        G0 == AddEdgesFrom(AddNodesFrom(EmptyGraph, union), SelfLoopPairs(union))
    IN  FuserLoop(G0, order, 1, union, vb)

---------------------------------------------------------------------------
(* Calls of the two fuse entry points on caller-chosen arguments *)

CollapseIdle ==
    /\ collapsed = EmptyMultiGraph
    /\ atEntry = EmptyMultiGraph
    /\ earlier = FALSE
    /\ conn_comps = <<>>
    /\ i = 0
    /\ id2fused_set = EmptyMap
    /\ node2fuse_id = EmptyMap
    /\ calls = 0

InitFuse ==
    /\ graphs \in GraphTuples
    /\ simfn \in AnyOracles(UnionOf(graphs))
    /\ t \in Thresholds
    /\ verbose \in VerboseValues
    /\ strNodes = Node
    /\ entry = "function"
    /\ fuser = EmptyGraph
    /\ fuseOut = "none"
    /\ printed = 0
    /\ pc = "idle"
    /\ CollapseIdle

UnchangedCollapse ==
    UNCHANGED <<collapsed, atEntry, earlier, conn_comps, i, id2fused_set,
                node2fuse_id, calls, strNodes, entry>>

\* fuse(t, simfn, *graphs, verbose=verbose)
FuseCall ==
    /\ pc = "idle"
    /\ \E order \in Perms(UnionOf(graphs)) :
          LET r == Fuse(graphs, simfn, verbose, order)
          IN  /\ fuser' = r.G
              /\ fuseOut' = r.outcome
              /\ printed' = r.printed
    /\ pc' = "fuse"
    /\ UNCHANGED <<graphs, simfn, t, verbose>>
    /\ UnchangedCollapse

\* NetworkFuser(simfn, t).fuse(*graphs, verbose=verbose)
NetworkFuserFuseCall ==
    /\ pc = "idle"
    /\ \E order \in Perms(UnionOf(graphs)) :
          LET r == FuserFuse(graphs, verbose, order)
          IN  /\ fuser' = r.G
              /\ fuseOut' = r.outcome
              /\ printed' = r.printed
    /\ pc' = "NetworkFuser.fuse"
    /\ UNCHANGED <<graphs, simfn, t, verbose>>
    /\ UnchangedCollapse

NextFuse == FuseCall \/ NetworkFuserFuseCall

SpecFuse == InitFuse /\ [][NextFuse]_vars

---------------------------------------------------------------------------
(* nx.MultiGraph operations used by collapse *)

\* collapsed.add_node(n)
MGAddNode(M, n) == [M EXCEPT !.nodes = @ \cup {n}]

\* one more parallel edge between a and b (a self-loop when a = b)
MGAddEdge(M, a, b) ==
    [M EXCEPT !.nodes = @ \cup {a, b},
              !.edges = IF {a, b} \in DOMAIN @
                        THEN [@ EXCEPT ![{a, b}] = @ + 1]
                        ELSE @ @@ ({a, b} :> 1)]

\* nx.set_node_attributes(M, 'fused_set', values): the nodes that values
\* names get its value, the other nodes keep the attribute they had
SetNodeAttributes(M, values) == [M EXCEPT !.fused_set = values @@ @]

---------------------------------------------------------------------------
(* Connected components: nx.connected_component_subgraphs(fuser) *)

RECURSIVE Grow(_, _)
Grow(G, S) ==
    LET S2 == S \cup {v \in G.nodes : \E e \in G.edges : v \in e /\ e \cap S # {}}
    IN  IF S2 = S THEN S ELSE Grow(G, S2)

Components(G) == {Grow(G, {u}) : u \in G.nodes}

\* sorted(..., key=len): ascending size, ties in discovery order, which
\* follows the fused graph's node order
SortedComponents(G) ==
    {cc \in Perms(Components(G)) :
        \A a, b \in DOMAIN cc : a < b => Cardinality(cc[a]) <= Cardinality(cc[b])}

---------------------------------------------------------------------------
(* One iteration of the component loop of collapse *)

\* Gi.neighbors(node) of an undirected nx.Graph, in the order ord
Neighbors(g, node, ord) == SelectSeq(ord, LAMBDA n : {node, n} \in g.edges)

\* node2fuse_id.update(**{u:i for u in component})
UpdateMembers(map, comp, id) == [u \in comp |-> id] @@ map

\* the loop over the graphs for one node: filter(lambda g: node in g, graphs)
RECURSIVE ScanGraphs(_, _, _, _, _, _)
ScanGraphs(gs, k, node, comp, ord, acc) ==
    IF k > Len(gs) \/ acc.fault # "none" THEN acc
    ELSE LET g == gs[k]
         IN  IF g.kind = "scalar"
             THEN [acc EXCEPT !.fault = "TypeError"]       \* node in g
             ELSE IF node \notin g.nodes
             THEN ScanGraphs(gs, k + 1, node, comp, ord, acc)
             ELSE IF g.kind # "graph"
             THEN [acc EXCEPT !.fault = "AttributeError"]  \* Gi.neighbors
             ELSE LET nb == Neighbors(g, node, ord)
                  IN  ScanGraphs(gs, k + 1, node, comp, ord,
                         [acc EXCEPT
                            !.self_loops = @ \o SelectSeq(nb, LAMBDA n : n \in comp),
                            !.neighbors = @ \o nb])

\* for node in component
RECURSIVE ScanNodes(_, _, _, _, _, _)
ScanNodes(gs, nodes, k, comp, ord, acc) ==
    IF k > Len(nodes) \/ acc.fault # "none" THEN acc
    ELSE ScanNodes(gs, nodes, k + 1, comp, ord,
                   ScanGraphs(gs, 1, nodes[k], comp, ord, acc))

\* collapsed.add_edges_from((i, node2fuse_id[u]) for u in neighbors): the
\* generator raises KeyError at the first neighbor that has no id yet, and
\* the edges added before it stay
RECURSIVE AddNeighborEdges(_, _, _, _, _)
AddNeighborEdges(M, id, neighbors, k, map) ==
    IF k > Len(neighbors) THEN [M |-> M, fault |-> "none"]
    ELSE IF neighbors[k] \notin DOMAIN map THEN [M |-> M, fault |-> "KeyError"]
    ELSE AddNeighborEdges(MGAddEdge(M, id, map[neighbors[k]]), id, neighbors,
                          k + 1, map)

\* the number of (i,i) edges the second add_edges_from adds
NoSelfLoopEdges(self_loops) == 0

SelfLoopEdges(self_loops) == Len(self_loops)

RECURSIVE AddSelfLoops(_, _, _)
AddSelfLoops(M, id, n) ==
    IF n = 0 THEN M ELSE AddSelfLoops(MGAddEdge(M, id, id), id, n - 1)

\* the orders in which a graph may list its nodes and a node its neighbors
NodeOrders == Perms(Node)

\* the body of `for i, component in enumerate(conn_comps)`
Iteration(M, gs, comp, id, sets, map, strs, ord) ==
    LET sets1 == (id :> comp) @@ sets
        stop(exc, M1, map1) ==
            [pc |-> exc, collapsed |-> M1, id2fused_set |-> sets1,
             node2fuse_id |-> map1]
    IN  IF ~(comp \subseteq strs)
        THEN stop("TypeError", M, map)          \* keywords must be strings
        ELSE
        LET map1 == UpdateMembers(map, comp, id)
            M1 == MGAddNode(M, id)
            scan == ScanNodes(gs, InOrder(comp, ord), 1, comp, ord,
                       [fault |-> "none", self_loops |-> <<>>, neighbors |-> <<>>])
        IN  IF scan.fault # "none" THEN stop(scan.fault, M1, map1)
            ELSE
            LET drawn == AddNeighborEdges(M1, id, scan.neighbors, 1, map1)
            IN  IF drawn.fault # "none" THEN stop(drawn.fault, drawn.M, map1)
                ELSE stop("loop",
                          AddSelfLoops(drawn.M, id, SelfLoopEdges(scan.self_loops)),
                          map1)

---------------------------------------------------------------------------
(* The pipeline: fuse, then collapse into the default output graph *)

NoOracle == [u \in Node |-> {}]

InitPipeline ==
    /\ graphs = <<>>
    /\ simfn = NoOracle
    /\ t = 0
    /\ verbose = None
    /\ strNodes \in {Node, Node \ {"c"}}
    /\ entry \in {"function", "method"}
    /\ fuser = EmptyGraph
    /\ fuseOut = "none"
    /\ printed = 0
    /\ pc = "idle"
    /\ CollapseIdle

\* the fused graphs fuse(t, simfn, *gs, verbose=None) returns, over the
\* oracles that honour their contract
FusedOver ==
    [V \in SUBSET Node |->
        LET order == CHOOSE o \in Perms(V) : TRUE
        IN  {FuseOn(V, sf, None, order).G : sf \in ContractOracles(V)}]

FusedGraphs(gs) == FusedOver[UnionOf(gs)]

\* the caller picks source graphs and an oracle, and fuses them;
\* extras are the arguments it passes to collapse besides the graphs, and
\* with fresh it passes collapsed=nx.MultiGraph()
Start(gs, extras, fresh) ==
    /\ pc = "idle"
    /\ calls < MaxCalls
    /\ fuser' \in FusedGraphs(gs)
    /\ fuseOut' = "returned"
    /\ graphs' = extras \o gs
    /\ pc' = "fused"
    /\ calls' = calls + 1
    /\ collapsed' = IF fresh THEN EmptyMultiGraph ELSE collapsed
    /\ atEntry' = collapsed'
    /\ earlier' = (earlier /\ ~fresh)
    /\ UNCHANGED <<simfn, t, verbose, strNodes, entry, printed,
                   conn_comps, i, id2fused_set, node2fuse_id>>

\* collapse(fuser, *graphs): the output graph is the default argument
StartCall == \E gs \in GraphTuples : Start(gs, <<>>, FALSE)

\* collapse(fuser, *graphs, collapsed=nx.MultiGraph())
StartFreshCall == \E gs \in GraphTuples : Start(gs, <<>>, TRUE)

\* the call is over: its locals are gone, and what it returned is with the
\* caller
Release ==
    /\ pc \in {"returned", "AssertionError", "TypeError", "AttributeError",
               "KeyError"}
    /\ pc' = "idle"
    /\ earlier' = (earlier \/ pc = "returned")
    /\ graphs' = <<>>
    /\ fuser' = EmptyGraph
    /\ fuseOut' = "none"
    /\ conn_comps' = <<>>
    /\ i' = 0
    /\ id2fused_set' = EmptyMap
    /\ node2fuse_id' = EmptyMap
    /\ atEntry' = collapsed
    /\ UNCHANGED <<simfn, t, verbose, strNodes, entry, printed, collapsed, calls>>

\* all(isinstance(g, nx.Graph) for g in graphs)
AllGraphs(gs) == \A k \in DOMAIN gs : gs[k].kind = "graph"

\* collapse(fuser, *graphs) up to the loop
CollapseCall ==
    /\ pc = "fused"
    /\ fuseOut = "returned"
    /\ IF entry = "method" /\ ~AllGraphs(graphs)
       THEN /\ pc' = "AssertionError"
            /\ UNCHANGED conn_comps
       ELSE /\ conn_comps' \in SortedComponents(fuser)
            /\ pc' = "loop"
    /\ i' = 0
    /\ id2fused_set' = EmptyMap
    /\ node2fuse_id' = EmptyMap
    /\ UNCHANGED <<graphs, simfn, t, verbose, strNodes, entry, fuser, fuseOut,
                   printed, collapsed, atEntry, earlier, calls>>

CollapseStep ==
    /\ pc = "loop"
    /\ i < Len(conn_comps)
    /\ \E r \in {Iteration(collapsed, graphs, conn_comps[i + 1], i,
                            id2fused_set, node2fuse_id, strNodes, ord) :
                     ord \in NodeOrders} :
              /\ pc' = r.pc
              /\ collapsed' = r.collapsed
              /\ id2fused_set' = r.id2fused_set
              /\ node2fuse_id' = r.node2fuse_id
              /\ i' = IF r.pc = "loop" THEN i + 1 ELSE i
    /\ UNCHANGED <<graphs, simfn, t, verbose, strNodes, entry, fuser, fuseOut,
                   printed, atEntry, earlier, conn_comps, calls>>

\* the function returns collapsed, id2fused_set, node2fuse_id; the method
\* stores id2fused_set as the attribute 'fused_set' of the nodes of
\* collapsed and returns collapsed, node2fuse_id
CollapseReturn ==
    /\ pc = "loop"
    /\ i = Len(conn_comps)
    /\ pc' = "returned"
    /\ collapsed' = IF entry = "method"
                    THEN SetNodeAttributes(collapsed, id2fused_set)
                    ELSE collapsed
    /\ UNCHANGED <<graphs, simfn, t, verbose, strNodes, entry, fuser, fuseOut,
                   printed, atEntry, earlier, conn_comps, i,
                   id2fused_set, node2fuse_id, calls>>

Next == StartCall \/ CollapseCall \/ CollapseStep \/ CollapseReturn \/ Release

Spec == InitPipeline /\ [][Next]_vars

NextFresh ==
    StartFreshCall \/ CollapseCall \/ CollapseStep \/ CollapseReturn \/ Release

SpecFresh == InitPipeline /\ [][NextFresh]_vars

\* collapse called with an argument that is not a graph among *graphs
StartArgsCall ==
    \E gs \in GraphTuples : \E x \in NonGraphs : Start(gs, <<x>>, FALSE)

NextArgs ==
    StartArgsCall \/ CollapseCall \/ CollapseStep \/ CollapseReturn \/ Release

SpecArgs == InitPipeline /\ [][NextArgs]_vars

---------------------------------------------------------------------------
(* Vocabulary of the properties *)

\* number of parallel edges between a and b
MGCount(M, a, b) == IF {a, b} \in DOMAIN M.edges THEN M.edges[{a, b}] ELSE 0

RECURSIVE SumOver(_, _)
SumOver(f, S) ==
    IF S = {} THEN 0
    ELSE LET x == CHOOSE y \in S : TRUE IN f[x] + SumOver(f, S \ {x})

\* the number of edges of M, parallel edges counted
MGSize(M) == SumOver(M.edges, DOMAIN M.edges)

\* the vertex universe V* of the call in progress
Universe == UnionOf(graphs)

\* the oracle returned only candidates: for source u, nodes of V* \ {u}
OnlyCandidates == \A u \in Universe : simfn[u] \subseteq Universe \ {u}

\* the oracle returned only nodes of V*, the source itself included
OnlyUniverse == \A u \in Universe : simfn[u] \subseteq Universe

FuseReturned == pc = "fuse" /\ fuseOut = "returned"

\* the edges of the source graphs, one per graph that holds them
SourceEdges ==
    {se \in (DOMAIN graphs) \X EdgesOver(Node) : se[2] \in graphs[se[1]].edges}

\* the component ids of the endpoints of a source edge
EndIds(e) == {node2fuse_id[x] : x \in e}

\* source edges with both endpoints in component id: between two nodes, loops
InternalLinks(id) ==
    {se \in SourceEdges : se[2] \subseteq id2fused_set[id] /\ Cardinality(se[2]) = 2}

InternalLoops(id) ==
    {se \in SourceEdges : se[2] \subseteq id2fused_set[id] /\ Cardinality(se[2]) = 1}

\* the components the loop has finished with
Processed == IF pc \in {"idle", "fused"} THEN {} ELSE 0..(i - 1)

InCollapse == pc \notin {"idle", "fused", "fuse", "NetworkFuser.fuse"}

\* component->members as the caller gets it: the returned dict, or the
\* 'fused_set' attributes of the returned graph
Members == IF entry = "method" THEN collapsed.fused_set ELSE id2fused_set

---------------------------------------------------------------------------
(* Properties *)

\* C1: when fuse returns and the oracle returned only candidates, two
\* distinct nodes u, v of the universe are joined in the fused graph exactly
\* when v is in the oracle's answer for u or u is in its answer for v, and
\* the fused graph has no other edge between distinct nodes.
C1_FuseEdges ==
    (FuseReturned /\ OnlyCandidates) =>
        /\ \A u, v \in Universe :
              u # v => ({u, v} \in fuser.edges <=> (v \in simfn[u] \/ u \in simfn[v]))
        /\ \A e \in fuser.edges : Cardinality(e) = 2 => e \subseteq Universe

C1_Witness ==
    /\ FuseReturned /\ OnlyCandidates
    /\ Cardinality(Universe) = 3
    /\ \E u, v \in Universe :
          /\ v \in simfn[u] /\ u \notin simfn[v] /\ {u, v} \in fuser.edges
          /\ \E w \in Universe \ {u, v} : {u, w} \notin fuser.edges

\* C2: collapse splits the universe into components.  On return the domain
\* of member->component is the universe, the member sets are non-empty,
\* pairwise disjoint and their sizes sum to |V*|; and at every step of the
\* loop, for each component already processed, member->component[u] = id
\* exactly when u is in component->members[id].
C2_Partition ==
    /\ pc = "returned" =>
          /\ DOMAIN node2fuse_id = Universe
          /\ \A a \in DOMAIN Members : Members[a] # {}
          /\ \A a, b \in DOMAIN Members : a # b => Members[a] \cap Members[b] = {}
          /\ SumOver([a \in DOMAIN Members |-> Cardinality(Members[a])],
                     DOMAIN Members) = Cardinality(Universe)
          /\ \A u \in Universe : \A a \in DOMAIN Members :
                node2fuse_id[u] = a <=> u \in Members[a]
    /\ InCollapse =>
          \A id \in Processed : \A u \in Node :
              (u \in DOMAIN node2fuse_id /\ node2fuse_id[u] = id)
                  <=> u \in id2fused_set[id]

\* C3: a call that starts from an empty output graph returns one collapsed
\* edge per source edge: between every two ids (equal or not) there are as
\* many collapsed edges as source edges whose endpoints have those ids.
C3_OneEdgePerSourceEdge ==
    (pc = "returned" /\ atEntry = EmptyMultiGraph) =>
        /\ MGSize(collapsed) = Cardinality(SourceEdges)
        /\ \A a, b \in DOMAIN id2fused_set :
              MGCount(collapsed, a, b) =
                  Cardinality({se \in SourceEdges : EndIds(se[2]) = {a, b}})

\* C4: collapse of a fused graph never raises, and on return every source
\* edge {u,v} has a collapsed edge between the ids of u and v (stated for
\* node identifiers that are all strings).
C4_EveryEdgeSurfaces ==
    (InCollapse /\ strNodes = Node) =>
        /\ pc \in {"loop", "returned"}
        /\ pc = "returned" =>
              \A se \in SourceEdges :
                  \E a, b \in DOMAIN id2fused_set :
                      EndIds(se[2]) = {a, b} /\ MGCount(collapsed, a, b) >= 1

\* C5: the graph a call returns without being given an output graph is
\* fresh: its nodes are that call's component ids, each of its edges comes
\* from a source edge of that call, and a graph returned earlier is never
\* changed by a later call.
C5_FreshOutput ==
    /\ pc = "returned" =>
          /\ collapsed.nodes = 0..(Len(conn_comps) - 1)
          /\ \A k \in DOMAIN collapsed.edges :
                \E se \in SourceEdges : EndIds(se[2]) = k
    /\ earlier => collapsed = atEntry

\* C6: whatever verbose is, fuse returns, and returns the graph it returns
\* for verbose = None on the same graphs, threshold and oracle.
C6_VerboseIrrelevant ==
    pc = "fuse" =>
        /\ fuseOut = "returned"
        /\ \A order \in Perms(Universe) :
              fuser = Fuse(graphs, simfn, None, order).G

\* C7 as claimed: every node of the graph fuse returns has a self-loop,
\* whatever set of nodes the oracle returned.
C7_SelfLoopsAnyOracle ==
    FuseReturned => \A n \in fuser.nodes : {n} \in fuser.edges

\* C7 amended: every node of the graph fuse returns has a self-loop,
\* whatever sets of nodes of the universe the oracle returned.
C7_SelfLoops ==
    (FuseReturned /\ OnlyUniverse) => \A n \in fuser.nodes : {n} \in fuser.edges

C7_Witness ==
    /\ FuseReturned /\ OnlyUniverse
    /\ Cardinality(Universe) = 3
    /\ \E u, v \in Universe :
          /\ u # v /\ simfn[u] = {} /\ simfn[v] = Universe \ {v}
          /\ {u} \in fuser.edges

\* C8: a collapse call given an argument that is not a graph stops with the
\* precondition failure, its output graph untouched.
C8_NonGraphRejected ==
    (InCollapse /\ ~AllGraphs(graphs)) =>
        /\ pc = "AssertionError"
        /\ collapsed = atEntry

\* S(i, j) of a fuser whose similarity function scores 1 the pairs simfn
\* lists and 0 the others
Similarity(u, v) == IF v \in simfn[u] THEN 1 ELSE 0

\* C9: NetworkFuser.fuse returns a graph on exactly the universe in which
\* distinct i, j are joined exactly when S(i,j) > t or S(j,i) > t.
C9_FuserFuse ==
    pc = "NetworkFuser.fuse" =>
        /\ fuseOut = "returned"
        /\ fuser.nodes = Universe
        /\ \A u, v \in Universe :
              u # v => ({u, v} \in fuser.edges
                          <=> (Similarity(u, v) > t \/ Similarity(v, u) > t))

====
